---- MODULE Spec2Model ----
(***************************************************************************)
(* Model of the offline-first synchronisation subsystem of the finance     *)
(* PWA: class SyncManager (sync-manager.js) and the sync-queue helpers of  *)
(* DatabaseManager (js/db.js).                                             *)
(*                                                                         *)
(* Execution model.  JavaScript runs one callback at a time; an async      *)
(* function runs without interruption until it awaits something that is    *)
(* completed by the host (a network response, a timer, the body of a       *)
(* response, an IndexedDB request).  Every such await is a position (pc)   *)
(* of a task, and every action below is the code that runs between two     *)
(* such positions.  An await on a promise of this module's own code that   *)
(* is already settled is part of the same action.                          *)
(*                                                                         *)
(* The local store is modelled at the level of its documented contract     *)
(* (add with an auto-increment key, get, put, delete, getAll, index        *)
(* lookup by value).                                                       *)
(***************************************************************************)
EXTENDS Integers, Sequences, FiniteSets, TLC

(* ------------------------------ bounds --------------------------------- *)

\* total number of syncData / saveToCloud / processSyncQueue invocations
MaxCalls == 2
\* number of requests the remote store fails (non-2xx answer or transport error)
MaxFail == 2
\* how far the device clock is seen to advance, in units of its resolution
MaxTicks == 0
\* a page with auto-sync: number of startAutoSync / stopAutoSync / syncData
\* invocations (timer-driven ones included), number of timers ever installed,
\* and number of requests the remote store fails
MaxAutoCalls == 4
MaxStarts == 2
MaxAutoFail == 3
\* the merge function alone: merge keys and record timestamps of its inputs
MaxKey == 2
MaxStamp == 2
\* the requests of single calls: calls made
MaxRetryCalls == 1
\* repeated drains: requests the remote store fails before it accepts all
MaxDrainFail == 1

(* ------------------------- program constants --------------------------- *)

maxRetries == 3
retryDelay == 2000

(* ------------------------------ values --------------------------------- *)

\* JavaScript values are tagged records, so that any two can be compared.
Undefined == [t |-> "undefined"]

Num(n) == [t |-> "num", n |-> n]

\* an ISO-8601 string "2024-01-01T00:00:0n.000Z", as produced by toISOString
Iso(n) == [t |-> "iso", n |-> n]

\* an array of records; every record is {id|desc, timestamp, amount}
Arr(items) == [t |-> "arr", items |-> items]

Item(key, timestamp, amount) == [key |-> key, timestamp |-> timestamp, amount |-> amount]

\* the _meta block: {lastSync} alone, or {lastSync, version, device} as
\* written by saveToCloud (stamped)
Meta(lastSync, stamped) == [t |-> "meta", lastSync |-> lastSync, stamped |-> stamped]

\* an object: its own properties in insertion order
Obj(fields) == [t |-> "obj", f |-> fields]

Field(k, v) == [k |-> k, v |-> v]

HasKey(o, k) == \E i \in 1..Len(o.f) : o.f[i].k = k

\* o[k]: the property's value, undefined when the object has no such property
Get(o, k) ==
    IF HasKey(o, k)
    THEN o.f[CHOOSE i \in 1..Len(o.f) : o.f[i].k = k].v
    ELSE Undefined

\* o[k] = v: an existing property keeps its position, a new one goes last
Set(o, k, v) ==
    IF HasKey(o, k)
    THEN Obj([i \in 1..Len(o.f) |-> IF o.f[i].k = k THEN Field(k, v) ELSE o.f[i]])
    ELSE Obj(Append(o.f, Field(k, v)))

\* ToBoolean for the values of this model (arrays and objects are truthy)
Truthy(v) ==
    CASE v.t = "undefined" -> FALSE
      [] v.t = "null" -> FALSE
      [] v.t = "num" -> v.n # 0
      [] OTHER -> TRUE

(* ------------------------------ inputs --------------------------------- *)

\* the application data of this device and of another device
LocalBody ==
    <<Field("manualTransactions", Arr(<<Item(1, 5, 10), Item(2, 1, 20)>>)),
      Field("currentBalance", Num(100))>>

CloudBody ==
    <<Field("manualTransactions", Arr(<<Item(2, 9, 21), Item(3, 2, 30)>>)),
      Field("currentBalance", Num(50))>>

WithMeta(body, lastSync) == Obj(Append(body, Field("_meta", Meta(lastSync, FALSE))))

\* the snapshots a caller passes to syncData
LocalInputs == {Obj(LocalBody), WithMeta(LocalBody, Iso(1)), WithMeta(LocalBody, Iso(2))}

\* the documents the remote store may hold when the page is loaded
CloudInputs ==
    {Obj(CloudBody), WithMeta(CloudBody, Iso(1)), WithMeta(CloudBody, Iso(2)),
     WithMeta(LocalBody, Iso(1))}

\* the snapshot a caller passes to saveToCloud
SaveInputs == {WithMeta(LocalBody, Iso(2))}

\* the snapshot of a save that an earlier session left in the sync queue
QueuedInput == Obj(LocalBody)

\* the device clock when the page is loaded (later than the snapshots' lastSync)
StartTime == 3

(* --------------------------- JSON.stringify ---------------------------- *)

\* character codes of the fixed pieces of the serialised text
KeyCodes(k) ==
    CASE k = "manualTransactions" ->
           <<34, 109, 97, 110, 117, 97, 108, 84, 114, 97, 110, 115, 97, 99, 116,
             105, 111, 110, 115, 34, 58>>
      [] k = "activeLoans" ->
           <<34, 97, 99, 116, 105, 118, 101, 76, 111, 97, 110, 115, 34, 58>>
      [] k = "futureIncomes" ->
           <<34, 102, 117, 116, 117, 114, 101, 73, 110, 99, 111, 109, 101, 115, 34, 58>>
      [] k = "currentBalance" ->
           <<34, 99, 117, 114, 114, 101, 110, 116, 66, 97, 108, 97, 110, 99, 101, 34, 58>>
      [] k = "_meta" -> <<34, 95, 109, 101, 116, 97, 34, 58>>
      [] k = "id" -> <<34, 105, 100, 34, 58>>
      [] k = "desc" -> <<34, 100, 101, 115, 99, 34, 58>>
      [] k = "timestamp" -> <<34, 116, 105, 109, 101, 115, 116, 97, 109, 112, 34, 58>>
      [] k = "amount" -> <<34, 97, 109, 111, 117, 110, 116, 34, 58>>
      [] k = "lastSync" -> <<34, 108, 97, 115, 116, 83, 121, 110, 99, 34, 58>>

\* "2024-01-01T00:00:0n.000Z" with its quotes
IsoCodes(n) ==
    <<34, 50, 48, 50, 52, 45, 48, 49, 45, 48, 49, 84, 48, 48, 58, 48, 48, 58, 48>>
    \o <<48 + n>> \o <<46, 48, 48, 48, 90, 34>>

\* ,"version":"1.0.0","device":"Mozilla/5.0"
VersionDeviceCodes ==
    <<44, 34, 118, 101, 114, 115, 105, 111, 110, 34, 58, 34, 49, 46, 48, 46, 48, 34,
      44, 34, 100, 101, 118, 105, 99, 101, 34, 58, 34, 77, 111, 122, 105, 108, 108,
      97, 47, 53, 46, 48, 34>>

RECURSIVE DigitCodes(_)
DigitCodes(n) ==
    IF n < 10 THEN <<48 + n>> ELSE DigitCodes(n \div 10) \o <<48 + (n % 10)>>

\* the merge key of a collection: 'desc' for futureIncomes, 'id' otherwise
MergeKey(coll) == IF coll = "futureIncomes" THEN "desc" ELSE "id"

\* one record of a collection; a desc is a string, an id a number
ItemCodes(it, key) ==
    <<123>> \o KeyCodes(key)
    \o (IF key = "desc" THEN <<34>> \o DigitCodes(it.key) \o <<34>> ELSE DigitCodes(it.key))
    \o <<44>> \o KeyCodes("timestamp") \o DigitCodes(it.timestamp)
    \o <<44>> \o KeyCodes("amount") \o DigitCodes(it.amount) \o <<125>>

RECURSIVE ItemsCodes(_, _)
ItemsCodes(items, key) ==
    IF items = <<>> THEN <<>>
    ELSE ItemCodes(Head(items), key)
         \o (IF Len(items) > 1 THEN <<44>> ELSE <<>>)
         \o ItemsCodes(Tail(items), key)

\* a property whose value is undefined is left out of the text
MetaCodes(m) ==
    <<123>>
    \o (IF m.lastSync.t = "undefined" THEN <<>> ELSE KeyCodes("lastSync") \o IsoCodes(m.lastSync.n))
    \o (IF m.stamped
        THEN (IF m.lastSync.t = "undefined" THEN Tail(VersionDeviceCodes) ELSE VersionDeviceCodes)
        ELSE <<>>)
    \o <<125>>

ValueCodes(k, v) ==
    CASE v.t = "num" -> DigitCodes(v.n)
      [] v.t = "arr" -> <<91>> \o ItemsCodes(v.items, MergeKey(k)) \o <<93>>
      [] v.t = "meta" -> MetaCodes(v)

RECURSIVE FieldsCodes(_)
FieldsCodes(fs) ==
    IF fs = <<>> THEN <<>>
    ELSE KeyCodes(Head(fs).k) \o ValueCodes(Head(fs).k, Head(fs).v)
         \o (IF Len(fs) > 1 THEN <<44>> ELSE <<>>)
         \o FieldsCodes(Tail(fs))

\* JSON.stringify(data) for an object; JSON.stringify(undefined) is undefined
Stringify(data) == <<123>> \o FieldsCodes(data.f) \o <<125>>

(* ------------------------ mergeArrays, mergeData ----------------------- *)

\* map.has(k) / position of the entry of key k in the Map's insertion order
MapHas(map, k) == \E i \in 1..Len(map) : map[i].key = k

MapIndex(map, k) == CHOOSE i \in 1..Len(map) : map[i].key = k

\* the body of the forEach: a new key is appended, an existing entry is
\* replaced in place when the item's timestamp is strictly larger
MergeStepKeepsOlder(map, item) ==
    IF ~MapHas(map, item.key) THEN Append(map, item)
    ELSE IF item.timestamp < map[MapIndex(map, item.key)].timestamp
         THEN [map EXCEPT ![MapIndex(map, item.key)] = item]
         ELSE map

MergeStepLaterWinsTie(map, item) ==
    IF ~MapHas(map, item.key) THEN Append(map, item)
    ELSE IF item.timestamp >= map[MapIndex(map, item.key)].timestamp
         THEN [map EXCEPT ![MapIndex(map, item.key)] = item]
         ELSE map

MergeStep(map, item) ==
    IF ~MapHas(map, item.key) THEN Append(map, item)
    ELSE IF item.timestamp > map[MapIndex(map, item.key)].timestamp
         THEN [map EXCEPT ![MapIndex(map, item.key)] = item]
         ELSE map

RECURSIVE MergeFold(_, _)
MergeFold(map, items) ==
    IF items = <<>> THEN map ELSE MergeFold(MergeStep(map, Head(items)), Tail(items))

\* mergeArrays(arr1, arr2, key): [...arr1, ...arr2] folded into a Map
mergeArrays(arr1, arr2) == MergeFold(<<>>, arr1 \o arr2)

MergeCollectionEither(merged, local, cloud, coll) ==
    LET items(doc) == IF Truthy(Get(doc, coll)) THEN Get(doc, coll).items ELSE <<>>
    IN  IF Truthy(Get(local, coll)) \/ Truthy(Get(cloud, coll))
        THEN Set(merged, coll, Arr(mergeArrays(items(local), items(cloud))))
        ELSE merged

MergeCollection(merged, local, cloud, coll) ==
    IF Truthy(Get(local, coll)) /\ Truthy(Get(cloud, coll))
    THEN Set(merged, coll, Arr(mergeArrays(Get(local, coll).items, Get(cloud, coll).items)))
    ELSE merged

\* if (local.currentBalance !== undefined) merged.currentBalance = local.currentBalance
MergeBalanceKeepsCloud(merged, local) == merged

MergeBalance(merged, local) ==
    IF Get(local, "currentBalance") # Undefined
    THEN Set(merged, "currentBalance", Get(local, "currentBalance"))
    ELSE merged

mergeData(local, cloud) ==
    LET m0 == cloud
        m1 == MergeCollection(m0, local, cloud, "manualTransactions")
        m2 == MergeCollection(m1, local, cloud, "activeLoans")
        m3 == MergeCollection(m2, local, cloud, "futureIncomes")
    IN  MergeBalance(m3, local)

(* --------------------------- timestamps -------------------------------- *)

\* x || 0
OrZero(x) == IF Truthy(x) THEN x ELSE Num(0)

\* data._meta?.lastSync
LastSyncOf(data) ==
    IF Get(data, "_meta") = Undefined THEN Undefined ELSE Get(data, "_meta").lastSync

\* The relational operator a > b of JavaScript on the values of this model:
\* two strings are compared as strings (ISO strings of one format order as
\* their instants do); otherwise both sides are converted to numbers, an
\* ISO string converts to NaN, and a comparison with NaN is false.
JsGreater(a, b) ==
    CASE a.t = "iso" /\ b.t = "iso" -> a.n > b.n
      [] a.t = "num" /\ b.t = "num" -> a.n > b.n
      [] OTHER -> FALSE

(* ------------------------------ hashData ------------------------------- *)

\* One round of hash = ((hash << 5) - hash) + char; hash = hash & hash.
\* The 32-bit value is kept as two 16-bit halves <<hi, lo>> (two's
\* complement), so that hash * 31 + char is computed modulo 2^32.
HashStep(h, char) ==
    LET lo == h[2] * 31 + char
        hi == h[1] * 31 + (lo \div 65536)
    IN  <<hi % 65536, lo % 65536>>

\* The loop over str[lo..hi], left to right.  The range is split in halves
\* and the left half is finished first (the test on it forces its value),
\* which keeps the evaluation shallow for long texts.
RECURSIVE HashFold(_, _, _, _)
HashFold(h, str, lo, hi) ==
    IF lo > hi THEN h
    ELSE IF lo = hi THEN HashStep(h, str[lo])
    ELSE LET mid == (lo + hi) \div 2
             left == HashFold(h, str, lo, mid)
         IN  IF left[1] >= 0 THEN HashFold(left, str, mid + 1, hi) ELSE left

\* the signed 32-bit integer that hash.toString() prints
ToInt32(h) ==
    IF h[1] >= 32768 THEN (h[1] - 65536) * 65536 + h[2] ELSE h[1] * 65536 + h[2]

\* the loop of hashData over JSON.stringify(data), and hash.toString()
HashOf(data) ==
    LET str == Stringify(data)
    IN  ToInt32(HashFold(<<0, 0>>, str, 1, Len(str)))

\* the documents saveToCloud can transmit for the input snapshots
Payloads ==
    {Set(d, "_meta", Meta(Iso(n), TRUE)) :
        d \in {QueuedInput} \cup SaveInputs, n \in StartTime..(StartTime + MaxTicks)}

\* The hashes of the input snapshots and of these documents, computed once;
\* any other snapshot is hashed when it is met.
KnownSnapshots == LocalInputs \cup CloudInputs \cup SaveInputs \cup Payloads

KnownHashes == [d \in KnownSnapshots |-> HashOf(d)]

\* hashData(data) of an object
hashData(data) == IF data \in KnownSnapshots THEN KnownHashes[data] ELSE HashOf(data)

\* hashData(undefined) throws a TypeError: JSON.stringify(undefined) is
\* undefined, and reading str.length of it throws
hashDataThrows(data) == data.t = "undefined"

(* ---------------------------- environment ----------------------------- *)

\* how a request can end: a 2xx, 4xx or 5xx answer, or a transport failure
Answers == {"ok", "http4xx", "http5xx", "network"}


Tasks == {1, 2}

(* ------------------------------- state --------------------------------- *)

VARIABLES
    isSyncing,       \* SyncManager.isSyncing
    lastSyncHash,    \* SyncManager.lastSyncHash
    retryAttempts,   \* SyncManager.retryAttempts
    isReady,         \* dbManager.isReady
    syncQueue,       \* the records of the 'syncQueue' object store, by id
    nextId,          \* the next auto-increment key of the store
    cloud,           \* the document held by the remote store
    failures,        \* requests the remote store has failed so far
    now,             \* what the device clock showed when it was read last
    calls,           \* invocations made so far
    tasks,           \* the invocations in progress
    last,            \* the invocation that returned in the step just taken, if any
    uploadedOps,     \* ids of queue entries whose replayed PUT got a 2xx answer
    reuploadedOps,   \* ids of queue entries transmitted again after that
    syncInterval,    \* SyncManager.syncInterval: a timer id or null
    timers,          \* the host's active interval timers, by id
    nextTimer,       \* the id the next setInterval returns
    log              \* the answers of the remote store since the last invocation
                     \* began, where they are recorded

vars == <<isSyncing, lastSyncHash, retryAttempts, isReady, syncQueue, nextId, cloud,
          failures, now, calls, tasks, last, uploadedOps, reuploadedOps,
          syncInterval, timers, nextTimer, log>>

Null == [t |-> "null"]

NoResult == [t |-> "none"]

NoOp == [id |-> 0]

IdleTask ==
    [op |-> "none", pc |-> "idle", req |-> "none", attempt |-> 0, delay |-> 0,
     local |-> Undefined, cloudData |-> Undefined, data |-> Undefined,
     payload |-> Undefined, error |-> "", pending |-> <<>>, cur |-> NoOp,
     item |-> NoOp, stamp |-> 0, sweep |-> <<>>, result |-> NoResult,
     \* what the invocation has done so far
     path |-> "none", saveArg |-> Undefined,
     gets |-> 0, puts |-> 0, sent |-> Undefined, enqueued |-> 0]

\* a record of the store: {id, type, data, error, timestamp, synced[, syncedAt]}
QueueRecord(id, data, error, timestamp, synced, syncedAt) ==
    [id |-> id, type |-> "save", data |-> data, error |-> error,
     timestamp |-> timestamp, synced |-> synced, syncedAt |-> syncedAt]

\* the store when the page is loaded: empty, or holding what an earlier
\* session left behind
QueueInputs ==
    {<<>>,
     <<QueueRecord(1, QueuedInput, "network", 0, FALSE, Undefined)>>,
     \* an operation an interrupted run flagged and did not sweep
     <<QueueRecord(1, QueuedInput, "network", 0, TRUE, Num(StartTime))>>}

Init ==
    /\ isSyncing = FALSE
    /\ lastSyncHash = Null
    /\ retryAttempts = 0
    /\ isReady \in BOOLEAN
    /\ syncQueue \in QueueInputs
    /\ nextId = Len(syncQueue) + 1
    /\ cloud \in CloudInputs
    /\ failures = 0
    /\ now = StartTime
    /\ calls = 0
    /\ tasks = [t \in Tasks |-> IdleTask]
    /\ last = IdleTask
    /\ uploadedOps = {}
    /\ reuploadedOps = {}
    /\ syncInterval = Null
    /\ timers = {}
    /\ nextTimer = 1
    /\ log = <<>>

(* ----------------------- the code between awaits ----------------------- *)

\* The part of the state a task's code reads and writes, with the task
\* itself as 'me'.  The operators below map one such record to the next.
World(t) ==
    [isSyncing |-> isSyncing, lastSyncHash |-> lastSyncHash,
     retryAttempts |-> retryAttempts, syncQueue |-> syncQueue, nextId |-> nextId,
     cloud |-> cloud, uploadedOps |-> uploadedOps, reuploadedOps |-> reuploadedOps,
     last |-> IdleTask, me |-> tasks[t], now |-> now, read |-> FALSE, log |-> log]

\* The clock never runs backwards: a run of code that reads it (new Date(),
\* Date.now()) finds the time of the last reading or a later one.
Times == now..(StartTime + MaxTicks)

Worlds(t) == {[World(t) EXCEPT !.now = n] : n \in Times}

\* the code has read the clock
ReadClock(w) == [w EXCEPT !.read = TRUE]

\* F(x), with x evaluated once
Once(F(_), x) == CHOOSE r \in {F(v) : v \in {x}} : TRUE

Commit(t, w0) ==
    \E w \in {w0} :
    /\ w.now # now => w.read
    /\ now' = w.now
    /\ isSyncing' = w.isSyncing
    /\ lastSyncHash' = w.lastSyncHash
    /\ retryAttempts' = w.retryAttempts
    /\ syncQueue' = w.syncQueue
    /\ nextId' = w.nextId
    /\ cloud' = w.cloud
    /\ uploadedOps' = w.uploadedOps
    /\ reuploadedOps' = w.reuploadedOps
    /\ last' = w.last
    /\ tasks' = [tasks EXCEPT ![t] = w.me]
    /\ log' = w.log
    /\ UNCHANGED <<syncInterval, timers, nextTimer>>

\* the values an invocation returns or throws
SyncResult(success, action, reason, error, data) ==
    [t |-> "sync", success |-> success, action |-> action, reason |-> reason,
     error |-> error, data |-> data]

SaveResult(value, error) == [t |-> "save", value |-> value, error |-> error]

DrainResult == [t |-> "drain"]

\* the invocation is over: its promise settles with res
Return(w0, res) ==
    Once(LAMBDA w :
            [w EXCEPT !.last = [IdleTask EXCEPT !.op = w.me.op, !.result = res,
                                                !.local = w.me.local,
                                                !.cloudData = w.me.cloudData,
                                                !.path = w.me.path,
                                                !.saveArg = w.me.saveArg,
                                                !.gets = w.me.gets, !.puts = w.me.puts,
                                                !.sent = w.me.sent,
                                                !.enqueued = w.me.enqueued],
                      !.me = IdleTask],
         w0)

\* fetch(url, options) is called: a request is on its way
StartFetch(w, method, attempt) ==
    [w EXCEPT !.me.pc = "fetch", !.me.req = method, !.me.attempt = attempt,
              !.me.delay = 0,
              !.me.gets = @ + (IF method = "GET" THEN 1 ELSE 0),
              !.me.puts = @ + (IF method = "PUT" THEN 1 ELSE 0)]

\* syncData's return and catch, each followed by its finally block
SyncFinishKeepsFlag(w, res) == Return(w, res)

SyncFinish(w, res) == Return([w EXCEPT !.isSyncing = FALSE], res)

SyncReturnAfterSave(w) ==
    IF w.me.path = "upload"
    THEN SyncFinish(w, SyncResult(TRUE, "uploaded", "", "", Undefined))
    ELSE SyncFinish(w, SyncResult(TRUE, "merged", "", "", w.me.saveArg))

SyncCatchRethrows(w, message) ==
    SyncFinish(w, [SyncResult(FALSE, "", "", message, Undefined) EXCEPT !.t = "threw"])

SyncCatchKeepsFlag(w, message) ==
    Return(w, SyncResult(FALSE, "", "", message, Undefined))

SyncCatch(w, message) == SyncFinish(w, SyncResult(FALSE, "", "", message, Undefined))

\* markAsSynced(id) is called: this.get('syncQueue', id) is on its way
markAsSynced(w) == [w EXCEPT !.me.pc = "markGet"]

\* saveToCloud is left: its arguments and locals are gone
SaveLeft(w) ==
    [w EXCEPT !.me.req = "none", !.me.attempt = 0, !.me.delay = 0,
              !.me.data = Undefined, !.me.payload = Undefined, !.me.error = ""]

\* saveToCloud has returned value (true, or false when it skipped)
SaveReturned(w, value) ==
    CASE w.me.op = "save" -> Return(w, SaveResult(value, ""))
      [] w.me.op = "sync" -> SyncReturnAfterSave(w)
      [] w.me.op = "drain" -> markAsSynced(SaveLeft(w))

\* saveToCloud(data) up to its first await
saveToCloud(w, data) ==
    IF w.isSyncing
    THEN SaveReturned(w, FALSE)
    ELSE LET again == IF w.me.op = "drain" /\ w.me.cur.id \in w.uploadedOps
                      THEN {w.me.cur.id} ELSE {}
         IN  StartFetch([ReadClock(w) EXCEPT
                                  !.isSyncing = TRUE,
                                  !.me.data = data,
                                  !.me.payload = Set(data, "_meta", Meta(Iso(w.now), TRUE)),
                                  !.reuploadedOps = @ \cup again],
                        "PUT", 1)

\* clearSyncedOperations() is called: this.getAll('syncQueue') is on its way
clearSyncedOperations(w) == [w EXCEPT !.me.pc = "sweepGetAll", !.me.cur = NoOp]

\* the for-of loop of processSyncQueue takes its next operation
DrainNext(w) ==
    IF w.me.pending = <<>>
    THEN clearSyncedOperations(w)
    ELSE LET operation == Head(w.me.pending)
             w1 == [w EXCEPT !.me.cur = operation, !.me.pending = Tail(@)]
         IN  IF operation.type = "save" THEN saveToCloud(w1, operation.data) ELSE markAsSynced(w1)

\* saveToCloud has thrown, after its finally block
SaveThrewAborts(w, message) ==
    LET w1 == [w EXCEPT !.isSyncing = FALSE]
    IN  CASE w.me.op = "save" -> Return(w1, SaveResult("threw", message))
          [] w.me.op = "sync" -> SyncCatch(w1, message)
          [] w.me.op = "drain" -> clearSyncedOperations(SaveLeft(w1))

SaveThrew(w, message) ==
    LET w1 == [w EXCEPT !.isSyncing = FALSE]
    IN  CASE w.me.op = "save" -> Return(w1, SaveResult("threw", message))
          [] w.me.op = "sync" -> SyncCatch(w1, message)
          [] w.me.op = "drain" -> DrainNext(SaveLeft(w1))

\* the catch block of saveToCloud: addToSyncQueue stamps the operation and
\* its add request is on its way
SaveCatch(w, message) ==
    IF isReady
    THEN [ReadClock(w) EXCEPT !.me.pc = "enqueue", !.me.req = "none",
                              !.me.error = message, !.me.stamp = w.now]
    ELSE SaveThrew(w, message)

\* saveToCloud after fetchWithRetry has returned a response
SaveRespondedLenient(w, status) ==
    IF status = "http4xx"
    THEN SaveCatch(w, status)
    ELSE SaveReturned([w EXCEPT !.lastSyncHash = Num(hashData(w.me.data)),
                                !.retryAttempts = 0,
                                !.isSyncing = FALSE,
                                !.me.sent = w.me.payload], TRUE)

SaveResponded(w, status) ==
    IF status # "ok"
    THEN SaveCatch(w, status)
    ELSE IF hashDataThrows(w.me.data)
    THEN SaveCatch(w, "TypeError")
    ELSE LET done == IF w.me.op = "drain" THEN {w.me.cur.id} ELSE {}
             w1 == [w EXCEPT !.lastSyncHash = Num(hashData(w.me.data)),
                             !.retryAttempts = 0,
                             !.isSyncing = FALSE,
                             !.me.sent = w.me.payload,
                             !.uploadedOps = @ \cup done]
         IN  SaveReturned(w1, TRUE)

\* loadFromCloud after fetchWithRetry has returned a response
loadFromCloudForgets(w, status) ==
    IF status # "ok"
    THEN SyncCatch([w EXCEPT !.lastSyncHash = Null], status)
    ELSE [w EXCEPT !.me.pc = "json", !.me.req = "none", !.me.attempt = 0,
                   !.me.cloudData = w.cloud]

loadFromCloud(w, status) ==
    IF status # "ok"
    THEN SyncCatch(w, status)
    ELSE [w EXCEPT !.me.pc = "json", !.me.req = "none", !.me.attempt = 0,
                   !.me.cloudData = w.cloud]

\* the delay before the retry that follows the given attempt
BackoffDelayFlat(attempt) == retryDelay

BackoffDelay(attempt) == retryDelay * 2 ^ (attempt - 1)

\* fetchWithRetry when its fetch settles: "retry", "response" or "throw"
fetchWithRetryOnceMore(status, attempt) ==
    IF status = "network"
    THEN (IF attempt <= maxRetries THEN "retry" ELSE "throw")
    ELSE IF status = "http5xx" /\ attempt <= maxRetries THEN "retry" ELSE "response"

fetchWithRetry(status, attempt) ==
    IF status = "network"
    THEN (IF attempt < maxRetries THEN "retry" ELSE "throw")
    ELSE IF status = "http5xx" /\ attempt < maxRetries THEN "retry" ELSE "response"

\* step 3 of syncData: which version is the more recent one
ResolveConflictTieUploads(localData, cloudData) ==
    LET localTimestamp == OrZero(LastSyncOf(localData))
        cloudTimestamp == OrZero(LastSyncOf(cloudData))
    IN  IF ~JsGreater(cloudTimestamp, localTimestamp) THEN "upload" ELSE "download"

ResolveConflictNoDownload(localData, cloudData) ==
    LET localTimestamp == OrZero(LastSyncOf(localData))
        cloudTimestamp == OrZero(LastSyncOf(cloudData))
    IN  IF JsGreater(localTimestamp, cloudTimestamp) THEN "upload" ELSE "merge"

ResolveConflict(localData, cloudData) ==
    LET localTimestamp == OrZero(LastSyncOf(localData))
        cloudTimestamp == OrZero(LastSyncOf(cloudData))
    IN  IF JsGreater(localTimestamp, cloudTimestamp) THEN "upload"
        ELSE IF JsGreater(cloudTimestamp, localTimestamp) THEN "download"
        ELSE "merge"

\* step 2 of syncData: localHash === cloudHash
SameHashNever(localHash, cloudHash) == FALSE

SameHash(localHash, cloudHash) == localHash = cloudHash

\* syncData from the loaded cloud document to its return
SyncDecide(w) ==
    LET localData == w.me.local
        cloudData == w.me.cloudData
        localHash == hashData(localData)
        cloudHash == hashData(cloudData)
        w1 == [w EXCEPT !.lastSyncHash = Num(cloudHash)]
        branch == ResolveConflict(localData, cloudData)
        merged == mergeData(localData, cloudData)
    IN  IF hashDataThrows(localData) THEN SyncCatch(w1, "TypeError")
        ELSE IF SameHash(localHash, cloudHash)
        THEN SyncFinish([w1 EXCEPT !.me.path = "same"],
                        SyncResult(TRUE, "no_changes", "", "", Undefined))
        ELSE IF branch = "upload"
        THEN saveToCloud([w1 EXCEPT !.me.path = "upload", !.me.saveArg = localData],
                       localData)
        ELSE IF branch = "download"
        THEN SyncFinish([w1 EXCEPT !.me.path = "download"],
                        SyncResult(TRUE, "downloaded", "", "", cloudData))
        ELSE Once(LAMBDA m : saveToCloud([w1 EXCEPT !.me.path = "merge", !.me.saveArg = m], m),
                  merged)

\* syncData(localData) up to its first await
syncDataNoGuard(w, localData) ==
    StartFetch([w EXCEPT !.isSyncing = TRUE, !.me.local = localData], "GET", 1)

syncDataClearsFlag(w, localData) ==
    IF w.isSyncing
    THEN Return([w EXCEPT !.isSyncing = FALSE],
                SyncResult(FALSE, "", "already_syncing", "", Undefined))
    ELSE StartFetch([w EXCEPT !.isSyncing = TRUE, !.me.local = localData], "GET", 1)

syncData(w, localData) ==
    IF w.isSyncing
    THEN Return(w, SyncResult(FALSE, "", "already_syncing", "", Undefined))
    ELSE StartFetch([w EXCEPT !.isSyncing = TRUE, !.me.local = localData], "GET", 1)

\* the store's put: the record replaces the one of its id, or is added
StorePutLost(queue, rec) == queue

StorePut(queue, rec) ==
    IF \E i \in 1..Len(queue) : queue[i].id = rec.id
    THEN [i \in 1..Len(queue) |-> IF queue[i].id = rec.id THEN rec ELSE queue[i]]
    ELSE SelectSeq(queue, LAMBDA r : r.id < rec.id) \o <<rec>>
         \o SelectSeq(queue, LAMBDA r : r.id > rec.id)

StoreDelete(queue, id) == SelectSeq(queue, LAMBDA r : r.id # id)

\* getByIndex('syncQueue', 'synced', false)
getPendingSyncOperations(queue) == SelectSeq(queue, LAMBDA r : ~r.synced)

(* ------------------------------ actions -------------------------------- *)

Begin(w, op) == [w EXCEPT !.me = [IdleTask EXCEPT !.op = op], !.log = <<>>]

\* an invocation is modelled by the first task that is not in use
Idle(t) ==
    /\ tasks[t].pc = "idle"
    /\ \A u \in Tasks : tasks[u].pc = "idle" => t <= u

Free(t) == Idle(t) /\ calls < MaxCalls

\* a caller invokes syncData(localData)
SyncCall(t) ==
    /\ Free(t)
    /\ \E w \in Worlds(t), localData \in LocalInputs :
          Commit(t, syncData(Begin(w, "sync"), localData))
    /\ calls' = calls + 1
    /\ UNCHANGED <<isReady, failures>>

\* a caller invokes saveToCloud(data)
SaveCall(t) ==
    /\ Free(t)
    /\ \E w \in Worlds(t), data \in SaveInputs :
          Commit(t, saveToCloud(Begin(w, "save"), data))
    /\ calls' = calls + 1
    /\ UNCHANGED <<isReady, failures>>

\* a caller invokes processSyncQueue()
DrainCall(t) ==
    /\ Free(t)
    /\ \E w0 \in Worlds(t) :
          LET w == Begin(w0, "drain")
          IN  IF ~isReady THEN Commit(t, Return(w, DrainResult))
              ELSE Commit(t, [w EXCEPT !.me.pc = "getPending"])
    /\ calls' = calls + 1
    /\ UNCHANGED <<isReady, failures>>

\* the code that runs when the fetch of a task settles with the given answer
FetchSettled(w, answer) ==
    LET outcome == fetchWithRetry(answer, w.me.attempt)
        \* a PUT answered 2xx has replaced the document
        w1 == IF w.me.req = "PUT" /\ answer = "ok"
              THEN [w EXCEPT !.cloud = w.me.payload] ELSE w
    IN  CASE outcome = "retry" ->
               [w1 EXCEPT !.me.pc = "sleep", !.me.delay = BackoffDelay(w.me.attempt)]
          [] outcome = "response" /\ w.me.req = "GET" -> loadFromCloud(w1, answer)
          [] outcome = "response" /\ w.me.req = "PUT" -> SaveResponded(w1, answer)
          [] outcome = "throw" /\ w.me.req = "GET" -> SyncCatch(w1, answer)
          [] outcome = "throw" /\ w.me.req = "PUT" -> SaveCatch(w1, answer)

\* the fetch of a task settles, the remote store failing at most budget requests
FetchSettlesWithin(t, budget) ==
    /\ tasks[t].pc = "fetch"
    /\ \E w \in Worlds(t), answer \in Answers :
          /\ answer # "ok" => failures < budget
          /\ failures' = IF answer = "ok" THEN failures ELSE failures + 1
          /\ Commit(t, FetchSettled(w, answer))
    /\ UNCHANGED <<isReady, calls>>

FetchSettles(t) == FetchSettlesWithin(t, MaxFail)

\* the backoff timer of a task fires: fetchWithRetry calls itself
SleepEnds(t) ==
    /\ tasks[t].pc = "sleep"
    /\ \E w \in Worlds(t) : Commit(t, StartFetch(w, tasks[t].req, tasks[t].attempt + 1))
    /\ UNCHANGED <<isReady, failures, calls>>

\* response.json() of loadFromCloud settles
JsonParsed(t) ==
    /\ tasks[t].pc = "json"
    /\ \E w \in Worlds(t) : Commit(t, SyncDecide(w))
    /\ UNCHANGED <<isReady, failures, calls>>

\* dbManager.addToSyncQueue of saveToCloud's catch block settles
Enqueued(t) ==
    /\ tasks[t].pc = "enqueue"
    /\ \E w \in Worlds(t) :
          LET rec == QueueRecord(nextId, tasks[t].data, tasks[t].error, tasks[t].stamp,
                                 FALSE, Undefined)
              w1 == [w EXCEPT !.syncQueue = Append(@, rec), !.nextId = @ + 1,
                              !.me.enqueued = @ + 1, !.me.stamp = 0]
          IN  Commit(t, SaveThrew(w1, tasks[t].error))
    /\ UNCHANGED <<isReady, failures, calls>>

\* dbManager.getPendingSyncOperations() settles
GotPending(t) ==
    /\ tasks[t].pc = "getPending"
    /\ \E w \in Worlds(t) :
          LET pending == getPendingSyncOperations(syncQueue)
          IN  IF Len(pending) = 0 THEN Commit(t, Return(w, DrainResult))
              ELSE Commit(t, DrainNext([w EXCEPT !.me.pending = pending]))
    /\ UNCHANGED <<isReady, failures, calls>>

\* item.synced = true; item.syncedAt = Date.now()
FlaggedNot(item, time) == item

Flagged(item, time) == [item EXCEPT !.synced = TRUE, !.syncedAt = Num(time)]

\* this.get('syncQueue', id) of markAsSynced settles
MarkGot(t) ==
    /\ tasks[t].pc = "markGet"
    /\ \E w \in Worlds(t) :
          LET id == tasks[t].cur.id
          IN  IF \E i \in 1..Len(syncQueue) : syncQueue[i].id = id
              THEN LET item == syncQueue[CHOOSE i \in 1..Len(syncQueue) : syncQueue[i].id = id]
                   IN  Commit(t, [ReadClock(w) EXCEPT
                                     !.me.pc = "markPut",
                                     !.me.item = Flagged(item, w.now)])
              ELSE Commit(t, DrainNext(w))
    /\ UNCHANGED <<isReady, failures, calls>>

\* this.update('syncQueue', item) of markAsSynced settles
MarkPut(t) ==
    /\ tasks[t].pc = "markPut"
    /\ \E w \in Worlds(t) :
          Commit(t, DrainNext([w EXCEPT !.syncQueue = StorePut(@, tasks[t].item),
                                        !.me.item = NoOp]))
    /\ UNCHANGED <<isReady, failures, calls>>

\* this.getAll('syncQueue') of clearSyncedOperations settles
SweepGotAll(t) ==
    /\ tasks[t].pc = "sweepGetAll"
    /\ \E w \in Worlds(t) :
          LET syncedOps == SelectSeq(syncQueue, LAMBDA op : op.synced)
          IN  IF syncedOps = <<>> THEN Commit(t, Return(w, DrainResult))
              ELSE Commit(t, [w EXCEPT !.me.pc = "sweepDelete", !.me.sweep = syncedOps])
    /\ UNCHANGED <<isReady, failures, calls>>

\* this.delete('syncQueue', op.id) of clearSyncedOperations settles
SweepDeleted(t) ==
    /\ tasks[t].pc = "sweepDelete"
    /\ \E w \in Worlds(t) :
          LET w1 == [w EXCEPT !.syncQueue = StoreDelete(@, Head(tasks[t].sweep).id),
                              !.me.sweep = Tail(@)]
          IN  IF Len(tasks[t].sweep) = 1 THEN Commit(t, Return(w1, DrainResult))
              ELSE Commit(t, w1)
    /\ UNCHANGED <<isReady, failures, calls>>

\* DatabaseManager.init: the database has been opened
DbInit ==
    /\ ~isReady
    /\ isReady' = TRUE
    /\ last' = IdleTask
    /\ UNCHANGED <<isSyncing, lastSyncHash, retryAttempts, syncQueue, nextId,
                   cloud, failures, now, calls, tasks, uploadedOps, reuploadedOps,
                   syncInterval, timers, nextTimer, log>>

Next ==
    \/ \E t \in Tasks : SyncCall(t)
    \/ \E t \in Tasks : SaveCall(t)
    \/ \E t \in Tasks : DrainCall(t)
    \/ \E t \in Tasks : FetchSettles(t)
    \/ \E t \in Tasks : SleepEnds(t)
    \/ \E t \in Tasks : JsonParsed(t)
    \/ \E t \in Tasks : Enqueued(t)
    \/ \E t \in Tasks : GotPending(t)
    \/ \E t \in Tasks : MarkGot(t)
    \/ \E t \in Tasks : MarkPut(t)
    \/ \E t \in Tasks : SweepGotAll(t)
    \/ \E t \in Tasks : SweepDeleted(t)
    \/ DbInit

Spec == Init /\ [][Next]_vars

(* ------------------------ the page with auto-sync ---------------------- *)

\* the intervalMinutes a caller passes to startAutoSync (5 is the default)
IntervalInputs == {1, 5}

\* an interval timer of the host: setInterval(callback, intervalMinutes * 60 * 1000)
Timer(id, intervalMinutes) == [id |-> id, delay |-> intervalMinutes * 60 * 1000]

clearInterval(ts, id) == {tm \in ts : tm.id # id}

\* if (this.syncInterval) clearInterval(this.syncInterval)
CancelExistingNot(ts, handle) == ts

CancelExisting(ts, handle) == IF Truthy(handle) THEN clearInterval(ts, handle.n) ELSE ts

\* what startAutoSync and stopAutoSync, which return nothing, leave in 'last'
AutoReturn(op) == [IdleTask EXCEPT !.op = op]

\* startAutoSync(intervalMinutes)
StartAutoSync ==
    /\ calls < MaxAutoCalls
    /\ nextTimer <= MaxStarts
    /\ \E intervalMinutes \in IntervalInputs :
          timers' = CancelExisting(timers, syncInterval)
                       \cup {Timer(nextTimer, intervalMinutes)}
    /\ syncInterval' = Num(nextTimer)
    /\ nextTimer' = nextTimer + 1
    /\ calls' = calls + 1
    /\ last' = AutoReturn("startAutoSync")
    /\ UNCHANGED <<isSyncing, lastSyncHash, retryAttempts, isReady, syncQueue, nextId,
                   cloud, failures, now, tasks, uploadedOps, reuploadedOps, log>>

\* stopAutoSync()
StopAutoSync ==
    /\ calls < MaxAutoCalls
    /\ IF Truthy(syncInterval)
       THEN /\ timers' = clearInterval(timers, syncInterval.n)
            /\ syncInterval' = Null
       ELSE UNCHANGED <<timers, syncInterval>>
    /\ calls' = calls + 1
    /\ last' = AutoReturn("stopAutoSync")
    /\ UNCHANGED <<isSyncing, lastSyncHash, retryAttempts, isReady, syncQueue, nextId,
                   cloud, failures, now, tasks, uploadedOps, reuploadedOps, nextTimer,
                   log>>

\* an active interval timer fires: its callback calls this.syncData()
TimerFires(t) ==
    /\ Idle(t)
    /\ calls < MaxAutoCalls
    /\ \E tm \in timers, w \in Worlds(t) :
          Commit(t, syncData(Begin(w, "sync"), Undefined))
    /\ calls' = calls + 1
    /\ UNCHANGED <<isReady, failures>>

\* the user of the page invokes syncData(localData)
UserSync(t) ==
    /\ Idle(t)
    /\ calls < MaxAutoCalls
    /\ \E w \in Worlds(t), localData \in LocalInputs :
          Commit(t, syncData(Begin(w, "sync"), localData))
    /\ calls' = calls + 1
    /\ UNCHANGED <<isReady, failures>>

AutoNext ==
    \/ StartAutoSync
    \/ StopAutoSync
    \/ \E t \in Tasks : TimerFires(t)
    \/ \E t \in Tasks : UserSync(t)
    \/ \E t \in Tasks : FetchSettlesWithin(t, MaxAutoFail)
    \/ \E t \in Tasks : SleepEnds(t)
    \/ \E t \in Tasks : JsonParsed(t)

SpecAuto == Init /\ [][AutoNext]_vars

(* ----------------------- the requests of one call ---------------------- *)

\* a caller invokes syncData(localData)
RetrySync(t) == calls < MaxRetryCalls /\ SyncCall(t)

\* a caller invokes saveToCloud(data)
RetrySave(t) == calls < MaxRetryCalls /\ SaveCall(t)

\* the fetch of a task settles with any answer, which is recorded
RetrySettles(t) ==
    /\ tasks[t].pc = "fetch"
    /\ \E w \in Worlds(t), answer \in Answers :
          Commit(t, [FetchSettled(w, answer) EXCEPT !.log = Append(@, answer)])
    /\ UNCHANGED <<isReady, failures, calls>>

RetryNext ==
    \/ \E t \in Tasks : RetrySync(t)
    \/ \E t \in Tasks : RetrySave(t)
    \/ \E t \in Tasks : RetrySettles(t)
    \/ \E t \in Tasks : SleepEnds(t)
    \/ \E t \in Tasks : JsonParsed(t)
    \/ \E t \in Tasks : Enqueued(t)

\* the page has been loaded and its queue is empty
RetryInit == Init /\ syncQueue = <<>>

SpecRetry == RetryInit /\ [][RetryNext]_vars

\* a request, a backoff timer, a response.json() or a store request that has
\* been started completes
RetryProgress ==
    \E t \in Tasks : RetrySettles(t) \/ SleepEnds(t) \/ JsonParsed(t) \/ Enqueued(t)

RetryFairness == WF_vars(RetryProgress)

SpecRetryFair == SpecRetry /\ RetryFairness

(* --------------------------- repeated drains --------------------------- *)

\* the page has been loaded and the store has been opened
DrainInit == Init /\ isReady /\ cloud = Obj(CloudBody)

\* processSyncQueue() is invoked once more
DrainAgain(t) ==
    /\ Idle(t)
    /\ \E w \in Worlds(t) : Commit(t, [Begin(w, "drain") EXCEPT !.me.pc = "getPending"])
    /\ UNCHANGED <<isReady, failures, calls>>

\* an awaited operation of task t completes; the remote store accepts every
\* request once it has failed MaxDrainFail of them
DrainProgress(t) ==
    \/ FetchSettlesWithin(t, MaxDrainFail)
    \/ SleepEnds(t)
    \/ Enqueued(t)
    \/ GotPending(t)
    \/ MarkGot(t)
    \/ MarkPut(t)
    \/ SweepGotAll(t)
    \/ SweepDeleted(t)

DrainsNext ==
    \/ \E t \in Tasks : DrainAgain(t)
    \/ \E t \in Tasks : DrainProgress(t)

\* processSyncQueue keeps being invoked and every invocation runs to its end
DrainFairness ==
    /\ WF_vars(\E t \in Tasks : DrainAgain(t))
    /\ \A t \in Tasks : WF_vars(DrainProgress(t))

SpecDrains == DrainInit /\ [][DrainsNext]_vars /\ DrainFairness

(* -------------------------- mergeData alone ---------------------------- *)

\* the collections mergeData merges
Collections == {"manualTransactions", "activeLoans", "futureIncomes"}

\* the records of one device: one per key of a set of keys, in key order,
\* each with a timestamp; the amount tells the device
RECURSIVE ItemsFrom(_, _, _)
ItemsFrom(key, stamps, amount) ==
    IF key > MaxKey THEN <<>>
    ELSE (IF key \in DOMAIN stamps THEN <<Item(key, stamps[key], amount)>> ELSE <<>>)
         \o ItemsFrom(key + 1, stamps, amount)

ArrayInputs(amount) ==
    {ItemsFrom(1, stamps, amount) :
        stamps \in UNION {[keys -> 1..MaxStamp] : keys \in SUBSET (1..MaxKey)}}

LocalAmount == 10

CloudAmount == 20

\* a snapshot with, or not, one collection, a balance and a _meta block
MergeInputs(coll, amount, balance) ==
    {Obj(items \o bal \o meta) :
        items \in {<<>>} \cup {<<Field(coll, Arr(arr))>> : arr \in ArrayInputs(amount)},
        bal \in {<<>>, <<Field("currentBalance", Num(balance))>>},
        meta \in {<<>>, <<Field("_meta", Meta(Iso(StartTime), FALSE))>>}}

\* a caller is about to invoke mergeData(local, cloud)
MergeInit ==
    /\ isSyncing = FALSE
    /\ lastSyncHash = Null
    /\ retryAttempts = 0
    /\ isReady = FALSE
    /\ syncQueue = <<>>
    /\ nextId = 1
    /\ cloud = Obj(CloudBody)
    /\ failures = 0
    /\ now = StartTime
    /\ calls = 0
    /\ last = IdleTask
    /\ uploadedOps = {}
    /\ reuploadedOps = {}
    /\ syncInterval = Null
    /\ timers = {}
    /\ nextTimer = 1
    /\ log = <<>>
    /\ \E coll \in Collections :
          \E local \in MergeInputs(coll, LocalAmount, 100),
             cloudData \in MergeInputs(coll, CloudAmount, 50) :
             /\ tasks = [t \in Tasks |->
                           IF t = 1
                           THEN [IdleTask EXCEPT !.op = "merge", !.pc = "merge",
                                                 !.local = local, !.cloudData = cloudData]
                           ELSE IdleTask]

\* mergeData(local, cloud) runs and returns the merged snapshot
MergeCall(t) ==
    /\ tasks[t].pc = "merge"
    /\ \E w \in Worlds(t) :
          Commit(t, Return(w, mergeData(tasks[t].local, tasks[t].cloudData)))
    /\ UNCHANGED <<isReady, failures, calls>>

MergeNext == \E t \in Tasks : MergeCall(t)

SpecMerge == MergeInit /\ [][MergeNext]_vars

(* ------------------------- notions of the claims ----------------------- *)

\* task t is inside a syncData attempt that passed the guard
SyncInFlight(t) == tasks[t].op = "sync" /\ tasks[t].pc # "idle"

\* task t is inside a saveToCloud that passed the guard
SaveInFlight(t) ==
    \/ tasks[t].pc \in {"fetch", "sleep"} /\ tasks[t].req = "PUT"
    \/ tasks[t].pc = "enqueue"

Holder(t) == SyncInFlight(t) \/ SaveInFlight(t)

\* task t has a request on its way, waits to repeat it, or reads its answer
NetworkBusy(t) == tasks[t].pc \in {"fetch", "sleep", "json"}

\* this step is an invocation, made by the task Caller, of the method CalledOp
CallStep == calls' = calls + 1

Caller == CHOOSE t \in Tasks : Free(t)

CalledOp == IF tasks'[Caller].pc # "idle" THEN tasks'[Caller].op ELSE last'.op

AlreadySyncing == SyncResult(FALSE, "", "already_syncing", "", Undefined)

\* the last invocation was a syncData that loaded the cloud document and
\* found a fingerprint different from that of its local snapshot
Diverged ==
    /\ last.op = "sync"
    /\ last.cloudData # Undefined
    /\ last.local # Undefined
    /\ hashData(last.local) # hashData(last.cloudData)

(* -------------------------------- claims ------------------------------- *)

\* C1: a syncData invocation that starts while a syncData attempt is in
\* flight returns {success:false, reason:'already_syncing'} at once without
\* any request, and at no time are two syncData attempts doing network I/O.
C1_SingleFlight ==
    /\ [](Cardinality({t \in Tasks : SyncInFlight(t) /\ NetworkBusy(t)}) <= 1)
    /\ [][(CallStep /\ CalledOp = "sync" /\ \E u \in Tasks : SyncInFlight(u))
            => /\ tasks'[Caller] = IdleTask
               /\ last'.result = AlreadySyncing
               /\ last'.gets = 0 /\ last'.puts = 0
               /\ \A u \in Tasks : tasks'[u] = tasks[u]]_vars

C1_Witness ==
    /\ last.op = "sync" /\ last.result = AlreadySyncing
    /\ \E t \in Tasks : SyncInFlight(t) /\ tasks[t].pc = "fetch"

\* C2: a syncData that returns success with action 'uploaded' or 'merged'
\* has had its snapshot stored by a successful PUT, the stored document
\* being that snapshot with a refreshed _meta block.
C2_UploadReachesRemote ==
    (last.op = "sync" /\ last.result.success
        /\ last.result.action \in {"uploaded", "merged"})
    => \E n \in StartTime..(StartTime + MaxTicks) :
          last.sent = Set(last.saveArg, "_meta", Meta(Iso(n), TRUE))

\* C3: a syncData that took the upload or merge path and whose snapshot did
\* not reach the remote store returns success=false with the error, and has
\* added exactly one pending operation {type 'save', that snapshot, the
\* error, synced=false} to the queue of the ready local store.
C3_FailedSaveQueued ==
    (last.op = "sync" /\ last.path \in {"upload", "merge"}
        /\ last.sent = Undefined /\ isReady)
    => /\ last.result.success = FALSE
       /\ last.result.error # ""
       /\ last.enqueued = 1

\* C4: a pending operation is flagged synced, and leaves the queue, only
\* after a PUT of its payload has been answered 2xx.
C4_SyncedOnlyAfterUpload ==
    /\ \A i \in 1..Len(syncQueue) : syncQueue[i].synced => syncQueue[i].id \in uploadedOps
    /\ \A id \in 1..(nextId - 1) :
          (\A i \in 1..Len(syncQueue) : syncQueue[i].id # id) => id \in uploadedOps

\* C5: isSyncing is true exactly while one invocation that passed the guard
\* is in flight (so it is set before the first await and cleared on every
\* exit), and an invocation rejected by the guard leaves the flag alone.
C5_FlagIsScopedLock ==
    /\ [](isSyncing <=> \E t \in Tasks : Holder(t))
    /\ [](Cardinality({t \in Tasks : Holder(t)}) <= 1)
    /\ [][(CallStep /\ isSyncing /\ CalledOp \in {"sync", "save"})
            => isSyncing' /\ tasks'[Caller] = IdleTask]_vars

C5_Witness ==
    /\ isSyncing
    /\ last.op = "sync" /\ last.result = AlreadySyncing
    /\ \E t \in Tasks : SaveInFlight(t)

\* C6: no pending operation's payload is transmitted again after a replay
\* of it has been stored, however two processSyncQueue runs interleave.
C6_NoDuplicateReplay == reuploadedOps = {}

\* C7: a saveToCloud invocation always transmits its document; it never
\* returns without a request.
C7_SaveAlwaysTransmits == last.op = "save" => last.puts >= 1

\* C8: with differing fingerprints and a cloud lastSync strictly newer than
\* the local one, syncData returns {success:true, action:'downloaded', data}
\* with data the loaded cloud snapshot, and has written nothing remotely and
\* queued nothing.
C8_Download ==
    (/\ last.op = "sync" /\ last.cloudData # Undefined /\ last.local # Undefined
     /\ LastSyncOf(last.local).t = "iso" /\ LastSyncOf(last.cloudData).t = "iso"
     /\ LastSyncOf(last.cloudData).n > LastSyncOf(last.local).n
     /\ Diverged)
    => /\ last.result = SyncResult(TRUE, "downloaded", "", "", last.cloudData)
       /\ last.puts = 0
       /\ last.enqueued = 0

C8_Witness ==
    /\ last.op = "sync" /\ last.result.action = "downloaded"
    /\ last.local = WithMeta(LocalBody, Iso(1))
    /\ last.cloudData = WithMeta(CloudBody, Iso(2))

\* C9: with differing fingerprints and equal lastSync values (or none on
\* either side) syncData takes the merge path: the snapshot handed to save
\* and returned as data is mergeData(local, cloud), the action is 'merged'.
C9_MergeOnEqual ==
    (/\ last.op = "sync" /\ last.cloudData # Undefined /\ last.local # Undefined
     /\ LastSyncOf(last.local) = LastSyncOf(last.cloudData)
     /\ Diverged)
    => /\ last.path = "merge"
       /\ last.saveArg = mergeData(last.local, last.cloudData)
       /\ last.result =
            SyncResult(TRUE, "merged", "", "", mergeData(last.local, last.cloudData))

C9_Witness ==
    /\ last.op = "sync" /\ last.result.action = "merged"
    /\ \/ last.local = Obj(LocalBody) /\ last.cloudData = Obj(CloudBody)
       \/ last.local = WithMeta(LocalBody, Iso(1))
            /\ last.cloudData = WithMeta(CloudBody, Iso(1))

\* C10: an absent lastSync counts as 0: a local snapshot with a lastSync
\* against a cloud snapshot without one is uploaded, and a cloud snapshot
\* with a lastSync against a local one without is downloaded.
C10_AbsentIsOldest ==
    Diverged =>
       /\ (LastSyncOf(last.local).t = "iso" /\ LastSyncOf(last.cloudData) = Undefined)
             => last.path = "upload"
       /\ (LastSyncOf(last.local) = Undefined /\ LastSyncOf(last.cloudData).t = "iso")
             => last.path = "download"

\* C11: a syncData whose local and loaded cloud snapshots have the same
\* fingerprint returns {success:true, action:'no_changes'} without a remote
\* write or an enqueue, and leaves the remote document and the flag as a
\* repeated call with the same snapshot needs them to return the same again.
C11_NoChanges ==
    (/\ last.op = "sync" /\ last.cloudData # Undefined /\ last.local # Undefined
     /\ hashData(last.local) = hashData(last.cloudData))
    => /\ last.result = SyncResult(TRUE, "no_changes", "", "", Undefined)
       /\ last.puts = 0
       /\ last.enqueued = 0
       /\ cloud = last.cloudData
       /\ ~isSyncing

C11_Witness ==
    /\ last.op = "sync" /\ last.result.action = "no_changes"
    /\ calls = 2
    /\ lastSyncHash = Num(hashData(last.local))

\* task t is inside the loadFromCloud of a syncData attempt
LoadStage(t) ==
    tasks[t].op = "sync" /\ tasks[t].pc \in {"fetch", "sleep"} /\ tasks[t].req = "GET"

\* the invocation that has just returned is a syncData whose load failed
LoadFailed == last.op = "sync" /\ last.gets >= 1 /\ last.cloudData = Undefined

\* C12: a syncData whose load fails (a non-2xx answer, or a transport failure
\* once the retries are used up) returns {success:false, error}, has written
\* nothing remotely and queued nothing, leaves isSyncing false, and no step
\* of its load, the failing one included, changes lastSyncHash,
\* retryAttempts, the remote document or the queue.
C12_LoadFailure ==
    /\ [](LoadFailed
            => /\ last.result.success = FALSE
               /\ last.result.error # ""
               /\ last.result.action = ""
               /\ last.puts = 0
               /\ last.enqueued = 0
               /\ ~isSyncing)
    /\ [][(\E t \in Tasks : LoadStage(t) /\ tasks'[t] # tasks[t])
            => /\ lastSyncHash' = lastSyncHash
               /\ retryAttempts' = retryAttempts
               /\ cloud' = cloud
               /\ syncQueue' = syncQueue]_vars

C12_Witness ==
    /\ LoadFailed
    /\ last.result.error = "network"
    /\ last.gets = maxRetries
    /\ lastSyncHash # Null

\* C13: syncData never throws: every invocation settles with a result
\* value, and one in which the load failed or the local snapshot was missing
\* settles with success=false and an error message.
C13_NeverThrows ==
    last.op = "sync"
    => /\ last.result.t = "sync"
       /\ (last.gets >= 1 /\ (last.cloudData = Undefined \/ last.local = Undefined))
             => (last.result.success = FALSE /\ last.result.error # "")

C13_Witness ==
    /\ last.op = "sync"
    /\ last.local = Undefined /\ last.cloudData # Undefined
    /\ last.result.success = FALSE /\ last.result.error = "TypeError"

\* the record of the given id is in the queue
InQueue(queue, id) == \E i \in 1..Len(queue) : queue[i].id = id

\* the record of the given id is in the queue and is one that
\* getPendingSyncOperations returns
IsPending(queue, id) == \E i \in 1..Len(queue) : queue[i].id = id /\ ~queue[i].synced

\* C14: a record enters the queue with synced=false and a creation
\* timestamp; a pending record stays pending until a replayed PUT of it has
\* been answered 2xx, and is then flagged with a synced-at timestamp; no
\* record leaves the queue while its synced flag is false.
C14_Lifecycle ==
    [][/\ \A i \in 1..Len(syncQueue') :
             syncQueue'[i].id >= nextId
             => /\ ~syncQueue'[i].synced
                /\ syncQueue'[i].syncedAt = Undefined
                /\ syncQueue'[i].timestamp \in StartTime..(StartTime + MaxTicks)
       /\ \A i \in 1..Len(syncQueue) :
             IsPending(syncQueue, syncQueue[i].id)
             => \/ IsPending(syncQueue', syncQueue[i].id)
                \/ /\ syncQueue[i].id \in uploadedOps'
                   /\ \E j \in 1..Len(syncQueue') :
                         /\ syncQueue'[j].id = syncQueue[i].id
                         /\ syncQueue'[j].synced
                         /\ syncQueue'[j].syncedAt # Undefined
       /\ \A i \in 1..Len(syncQueue) :
             ~InQueue(syncQueue', syncQueue[i].id) => syncQueue[i].synced]_vars

(* ------------------------------ mergeData ------------------------------ *)

\* the records of a collection of a snapshot
ItemsOf(doc, coll) == Get(doc, coll).items

KeysOf(items) == {items[i].key : i \in 1..Len(items)}

Range(items) == {items[i] : i \in 1..Len(items)}

\* mergeData(local, cloud) has returned and both snapshots hold the collection
Merged(coll) ==
    /\ last.op = "merge"
    /\ Get(last.local, coll) # Undefined
    /\ Get(last.cloudData, coll) # Undefined

\* C15: for a collection present in both snapshots, mergeData yields exactly
\* one item per key of the union of both sides' keys, and for a key held by
\* both sides with different timestamps the item with the larger timestamp
\* is the one kept.
C15_MergeUnion ==
    \A coll \in Collections :
        Merged(coll) =>
            LET l == ItemsOf(last.local, coll)
                c == ItemsOf(last.cloudData, coll)
                m == ItemsOf(last.result, coll)
            IN  /\ KeysOf(m) = KeysOf(l) \cup KeysOf(c)
                /\ Len(m) = Cardinality(KeysOf(m))
                /\ Range(m) \subseteq Range(l) \cup Range(c)
                /\ \A i \in 1..Len(l), j \in 1..Len(c) :
                       l[i].key = c[j].key /\ l[i].timestamp # c[j].timestamp =>
                           (IF l[i].timestamp > c[j].timestamp THEN l[i] ELSE c[j])
                               \in Range(m)

\* local holds keys 1 and 2, cloud holds key 2 with a larger timestamp: the
\* merged collection holds both keys, key 2 as the cloud has it
C15_Witness ==
    /\ Merged("manualTransactions")
    /\ ItemsOf(last.local, "manualTransactions")
           = <<Item(1, 2, LocalAmount), Item(2, 1, LocalAmount)>>
    /\ ItemsOf(last.cloudData, "manualTransactions") = <<Item(2, 2, CloudAmount)>>
    /\ ItemsOf(last.result, "manualTransactions")
           = <<Item(1, 2, LocalAmount), Item(2, 2, CloudAmount)>>

Tie(coll, i, j) ==
    /\ ItemsOf(last.local, coll)[i].key = ItemsOf(last.cloudData, coll)[j].key
    /\ ItemsOf(last.local, coll)[i].timestamp = ItemsOf(last.cloudData, coll)[j].timestamp

\* C20: when local and cloud hold an item under the same key with equal
\* timestamps, the merged collection keeps local's item: local's array is
\* iterated first and a later item replaces an entry only when its timestamp
\* is strictly larger.
C20_TieKeepsLocal ==
    \A coll \in Collections :
        Merged(coll) =>
            \A i \in 1..Len(ItemsOf(last.local, coll)),
               j \in 1..Len(ItemsOf(last.cloudData, coll)) :
                Tie(coll, i, j) =>
                    /\ ItemsOf(last.local, coll)[i] \in Range(ItemsOf(last.result, coll))
                    /\ ItemsOf(last.cloudData, coll)[j] \notin Range(ItemsOf(last.result, coll))

\* C20 as stated: on equal timestamps the merged collection keeps the
\* cloud-derived item.
C20_TieKeepsCloud ==
    \A coll \in Collections :
        Merged(coll) =>
            \A i \in 1..Len(ItemsOf(last.local, coll)),
               j \in 1..Len(ItemsOf(last.cloudData, coll)) :
                Tie(coll, i, j) =>
                    ItemsOf(last.cloudData, coll)[j] \in Range(ItemsOf(last.result, coll))

\* both sides hold key 1 of futureIncomes with timestamp 2: local's is kept
C20_Witness ==
    /\ Merged("futureIncomes")
    /\ ItemsOf(last.local, "futureIncomes") = <<Item(1, 2, LocalAmount)>>
    /\ ItemsOf(last.cloudData, "futureIncomes") = <<Item(1, 2, CloudAmount)>>
    /\ ItemsOf(last.result, "futureIncomes") = <<Item(1, 2, LocalAmount)>>

(* ------------------------------ auto-sync ------------------------------ *)

\* C17: after any sequence of startAutoSync and stopAutoSync calls at most
\* one periodic trigger is active, and it is the one syncInterval names;
\* startAutoSync cancels the existing trigger and installs a new one,
\* stopAutoSync leaves none active and syncInterval null, and stopAutoSync
\* with no trigger installed changes nothing.
C17_OneTrigger ==
    /\ [](/\ Cardinality(timers) <= 1
          /\ \A tm \in timers : syncInterval = Num(tm.id)
          /\ timers = {} <=> syncInterval = Null)
    /\ [][/\ last'.op = "startAutoSync" =>
                /\ Cardinality(timers') = 1
                /\ timers' \cap timers = {}
          /\ last'.op = "stopAutoSync" =>
                /\ timers' = {}
                /\ syncInterval' = Null
                /\ timers = {} =>
                      UNCHANGED <<syncInterval, timers, nextTimer, isSyncing,
                                  lastSyncHash, retryAttempts, tasks, syncQueue, cloud>>]_vars

\* startAutoSync was called twice with different periods: the second
\* trigger alone is active
C17_Witness ==
    /\ last.op = "startAutoSync"
    /\ nextTimer = 3
    /\ timers = {Timer(2, 1)}
    /\ syncInterval = Num(2)

(* --------------------------- draining the queue ------------------------ *)

\* C18: when processSyncQueue returns with the local store ready, the queue
\* holds no entry with synced = true.
C18_SweptOnReturn ==
    last.op = "drain" /\ isReady =>
        \A i \in 1..Len(syncQueue) : ~syncQueue[i].synced

\* the number of operations getPendingSyncOperations returns
PendingCount(queue) == Len(getPendingSyncOperations(queue))

\* C19: a processSyncQueue run never increases the number of pending
\* operations: no step of a run adds an entry to the queue.
C19_NoGrowth ==
    [][\A t \in Tasks :
          tasks[t].op = "drain" /\ tasks'[t] # tasks[t] =>
              /\ PendingCount(syncQueue') <= PendingCount(syncQueue)
              /\ nextId' = nextId]_vars

\* the names of the properties of a snapshot
FieldNames(doc) == {doc.f[i].k : i \in 1..Len(doc.f)}

\* C26: a mergeable collection that only one of the two snapshots holds is
\* not union-merged: the merged snapshot holds for that name what cloud
\* holds, and every field other than the three collections and
\* currentBalance, _meta included, is cloud's.
C26_OneSided ==
    last.op = "merge" =>
        /\ \A coll \in Collections :
               Get(last.local, coll) = Undefined \/ Get(last.cloudData, coll) = Undefined =>
                   Get(last.result, coll) = Get(last.cloudData, coll)
        /\ \A k \in (FieldNames(last.local) \cup FieldNames(last.cloudData)
                        \cup FieldNames(last.result))
                    \ (Collections \cup {"currentBalance"}) :
               Get(last.result, k) = Get(last.cloudData, k)

\* only local holds activeLoans and a _meta block: the merged snapshot has
\* neither
C26_Witness ==
    /\ last.op = "merge"
    /\ Get(last.local, "activeLoans") = Arr(<<Item(1, 1, LocalAmount)>>)
    /\ Get(last.local, "_meta") # Undefined
    /\ last.cloudData = Obj(<<Field("currentBalance", Num(50))>>)
    /\ Get(last.result, "activeLoans") = Undefined
    /\ Get(last.result, "_meta") = Undefined

(* ------------------------ auto-sync and attempts ----------------------- *)

\* the state of the attempts and of what they work on
Attempts == <<tasks, isSyncing, lastSyncHash, retryAttempts, cloud, syncQueue, failures>>

\* C27: a firing of the periodic trigger, or a call of stopAutoSync, while
\* a sync attempt is in flight neither cancels nor alters that attempt: the
\* new syncData call returns already_syncing without a request and without
\* touching isSyncing, and the attempt in flight is where it was.
C27_NoCancellation ==
    [][isSyncing /\ (\E t \in Tasks : tasks[t].op = "sync") =>
          /\ last'.op = "sync" /\ calls' = calls + 1 =>
                /\ last'.result = SyncResult(FALSE, "", "already_syncing", "", Undefined)
                /\ last'.gets = 0 /\ last'.puts = 0
                /\ UNCHANGED Attempts
          /\ last'.op = "stopAutoSync" => UNCHANGED Attempts]_vars

\* the trigger has fired while an attempt was waiting for its request
C27_Witness ==
    /\ last.op = "sync"
    /\ last.local = Undefined
    /\ last.result.reason = "already_syncing"
    /\ isSyncing
    /\ timers # {}
    /\ \E t \in Tasks : tasks[t].op = "sync" /\ tasks[t].pc = "fetch"

\* C29: a firing of the periodic trigger while no sync is in flight starts
\* a syncData attempt that, the remote store answering every request with
\* a 2xx, ends with success = true.
C29_TimerSyncSucceeds ==
    /\ last.op = "sync"
    /\ last.local = Undefined
    /\ last.gets >= 1
    /\ failures = 0
    => last.result.success

(* ------------------------- the order of a replay ----------------------- *)

\* the records of the given id in the queue (one, or none)
RecordsOf(queue, id) == {queue[i] : i \in {j \in 1..Len(queue) : queue[j].id = id}}

\* task t, a processSyncQueue run, takes a step
DrainStep(t) == tasks[t].op = "drain" /\ tasks'[t] # tasks[t]

\* C22: a processSyncQueue run attempts the operations in the order
\* getPendingSyncOperations returned them; an operation whose save has
\* succeeded is flagged synced, with its synced-at time, before the run
\* takes the next operation; and no step of the run touches the record of an
\* operation it has not attempted yet.  Whenever the run stops, the
\* operations it has marked are flagged and those it has not reached are
\* as they were.
C22_OrderedReplay ==
    [][\A t \in Tasks : DrainStep(t) =>
          \* the list is the one the store returned
          /\ tasks[t].pc = "getPending" /\ tasks'[t].op = "drain" =>
                <<tasks'[t].cur>> \o tasks'[t].pending = getPendingSyncOperations(syncQueue)
          \* the next operation is the head of what is left
          /\ tasks[t].pc # "getPending" =>
                IF tasks'[t].cur = tasks[t].cur
                THEN tasks'[t].pending = tasks[t].pending
                ELSE /\ tasks[t].pc \in {"markGet", "markPut", "enqueue"}
                     /\ \/ /\ tasks[t].pending # <<>>
                           /\ tasks'[t].cur = Head(tasks[t].pending)
                           /\ tasks'[t].pending = Tail(tasks[t].pending)
                        \/ /\ tasks[t].pending = <<>>
                           /\ tasks'[t].cur = NoOp
                           /\ tasks'[t].pc = "sweepGetAll"
          \* a save that succeeded is followed by the marking of its operation
          /\ tasks[t].pc = "fetch" /\ tasks'[t].pc \notin {"sleep", "enqueue"} =>
                /\ tasks'[t].pc = "markGet"
                /\ tasks[t].cur.id \in uploadedOps'
          /\ tasks[t].pc = "markGet" /\ InQueue(syncQueue, tasks[t].cur.id) =>
                tasks'[t].pc = "markPut"
          /\ tasks[t].pc = "markPut" =>
                \A r \in RecordsOf(syncQueue', tasks[t].cur.id) :
                    r.synced /\ r.syncedAt # Undefined
          /\ tasks[t].pc = "markPut" => InQueue(syncQueue', tasks[t].cur.id)
          \* what has not been attempted is not touched
          /\ \A i \in 1..Len(tasks'[t].pending) :
                RecordsOf(syncQueue', tasks'[t].pending[i].id)
                    = RecordsOf(syncQueue, tasks'[t].pending[i].id)]_vars

\* a run has replayed and flagged operation 1 and is sending operation 2,
\* which is still pending
C22_Witness ==
    \E t \in Tasks :
        /\ tasks[t].op = "drain"
        /\ tasks[t].pc = "fetch"
        /\ tasks[t].cur.id = 2
        /\ 1 \in uploadedOps
        /\ \A r \in RecordsOf(syncQueue, 1) : r.synced
        /\ InQueue(syncQueue, 1)
        /\ IsPending(syncQueue, 2)

\* C23: when the replay of an operation fails, the run goes on with the
\* next operation of its list, or with the sweep when there is none; the
\* failed operation's record is as it was, so it is pending still.
C23_FailureContinues ==
    [][\A t \in Tasks : DrainStep(t) /\ tasks[t].pc = "enqueue" =>
          /\ RecordsOf(syncQueue', tasks[t].cur.id) = RecordsOf(syncQueue, tasks[t].cur.id)
          /\ IsPending(syncQueue, tasks[t].cur.id) => IsPending(syncQueue', tasks[t].cur.id)
          /\ IF tasks[t].pending # <<>>
             THEN /\ tasks'[t].cur = Head(tasks[t].pending)
                  /\ tasks'[t].pc = "fetch"
                  /\ tasks'[t].puts = tasks[t].puts + 1
             ELSE tasks'[t].pc = "sweepGetAll"]_vars

\* the replay of operation 1 has failed, operation 1 is pending still, and
\* the run is sending operation 2
C23_Witness ==
    \E t \in Tasks :
        /\ tasks[t].op = "drain"
        /\ tasks[t].pc = "fetch"
        /\ tasks[t].cur.id = 2
        /\ tasks[t].puts = 2
        /\ tasks[t].enqueued = 1
        /\ 1 \notin uploadedOps
        /\ IsPending(syncQueue, 1)

(* ----------------------- the requests of one call ---------------------- *)

\* task t takes the step in which its request settles
Settles(t) == tasks[t].pc = "fetch" /\ tasks'[t] # tasks[t]

\* the answer to the request that settles in the step
Answer == log'[Len(log')]

\* the answers after which fetchWithRetry may send the request again
Retryable == {"network", "http5xx"}

\* C21: a fetchWithRetry call issues at most 3 requests; it issues a
\* further request only after a transport failure or a 5xx answer to an
\* attempt numbered below 3, and never after a 2xx or a 4xx answer.
C21_BoundedRetry ==
    /\ [](\A t \in Tasks : tasks[t].attempt <= 3 /\ tasks[t].gets <= 3 /\ tasks[t].puts <= 3)
    /\ [][\A t \in Tasks :
             /\ Settles(t) =>
                   /\ Len(log') = Len(log) + 1
                   /\ tasks'[t].pc = "sleep" <=>
                          Answer \in Retryable /\ tasks[t].attempt < 3
             /\ tasks[t].pc # "idle"
                /\ tasks'[t].gets + tasks'[t].puts > tasks[t].gets + tasks[t].puts =>
                   /\ tasks[t].pc = "sleep"
                   /\ tasks'[t].attempt = tasks[t].attempt + 1
                   /\ tasks'[t].gets + tasks'[t].puts = tasks[t].gets + tasks[t].puts + 1]_vars

\* a transport failure, a 5xx and a 4xx: three requests and no fourth
C21_Witness ==
    /\ log = <<"network", "http5xx", "http4xx">>
    /\ last.op = "sync"
    /\ last.gets = 3
    /\ \A t \in Tasks : tasks[t].pc = "idle"

\* C24: when the last attempt of a request fails, the transport error or
\* the 5xx answer of that attempt is what load and save raise to their
\* caller, as they do for every final answer that is not a 2xx; a 4xx
\* answer is raised without a further request.
C24_FailurePropagates ==
    [][\A t \in Tasks :
          /\ Settles(t) /\ Answer # "ok" /\ (tasks[t].attempt = 3 \/ Answer = "http4xx") =>
                CASE tasks[t].req = "GET" ->
                       /\ last'.op = "sync"
                       /\ last'.result = SyncResult(FALSE, "", "", Answer, Undefined)
                       /\ last'.gets = tasks[t].attempt
                  [] tasks[t].req = "PUT" /\ isReady ->
                       /\ tasks'[t].pc = "enqueue"
                       /\ tasks'[t].error = Answer
                       /\ tasks'[t].puts = tasks[t].attempt
                  [] tasks[t].req = "PUT" /\ ~isReady ->
                       /\ last'.op = "save"
                       /\ last'.result = SaveResult("threw", Answer)
                       /\ last'.puts = tasks[t].attempt
          /\ tasks[t].pc = "enqueue" /\ tasks'[t] # tasks[t] =>
                /\ last'.op = "save"
                /\ last'.result = SaveResult("threw", tasks[t].error)
                /\ last'.puts = tasks[t].puts]_vars

\* two transport failures and a 5xx: saveToCloud has thrown the 5xx after
\* three requests
C24_Witness ==
    /\ log = <<"network", "network", "http5xx">>
    /\ last.op = "save"
    /\ last.result = SaveResult("threw", "http5xx")
    /\ last.puts = 3

\* the requests a call has made
Requests(task) == task.gets + task.puts

\* C25: the wait after attempt 1 is 2000 ms and the wait after attempt 2 is
\* 4000 ms, whatever made the attempt fail; with the answers 5xx, 5xx, 2xx
\* a call makes exactly 3 requests and has the 2xx answer as its result.
C25_Backoff ==
    /\ \A t \in Tasks :
           tasks[t].pc = "sleep" =>
               \/ tasks[t].attempt = 1 /\ tasks[t].delay = 2000
               \/ tasks[t].attempt = 2 /\ tasks[t].delay = 4000
    /\ calls = 1 /\ Len(log) >= 3 /\ SubSeq(log, 1, 3) = <<"http5xx", "http5xx", "ok">> =>
           /\ Len(log) = 3
           /\ \A t \in Tasks : tasks[t].pc \in {"idle", "json"}
           /\ \A t \in Tasks : tasks[t].pc = "json" => Requests(tasks[t]) = 3
           /\ (\A t \in Tasks : tasks[t].pc = "idle") /\ last.op = "save" =>
                  last.result = SaveResult(TRUE, "") /\ Requests(last) = 3
           /\ (\A t \in Tasks : tasks[t].pc = "idle") /\ last.op = "sync" =>
                  last.result.error \notin Answers /\ Requests(last) = 3

\* 5xx, 5xx, 2xx: saveToCloud has returned true after three requests
C25_Witness ==
    /\ calls = 1
    /\ log = <<"http5xx", "http5xx", "ok">>
    /\ last.op = "save"
    /\ last.result = SaveResult(TRUE, "")
    /\ last.puts = 3

\* task t is a syncData invocation that has passed the guard and has not
\* returned
InFlight(t) == tasks[t].op = "sync" /\ tasks[t].pc # "idle"

\* C30: every syncData invocation that passes the guard returns, and
\* isSyncing = true leads to isSyncing = false, when every request, every
\* backoff timer and every other awaited operation completes, whatever the
\* remote store answers.
C30_Terminates ==
    /\ \A t \in Tasks : InFlight(t) ~> tasks[t].pc = "idle"
    /\ isSyncing ~> ~isSyncing

\* an attempt whose first two requests have failed is waiting for its third
C30_Witness ==
    \E t \in Tasks :
        /\ InFlight(t)
        /\ tasks[t].pc = "fetch"
        /\ tasks[t].attempt = 3
        /\ isSyncing
        /\ Len(log) = 2

(* --------------------------- repeated drains --------------------------- *)

\* C28: when the store is ready, the remote store accepts every save from
\* some point on, and processSyncQueue keeps being invoked, each invocation
\* running to its end, the queue eventually holds no pending operation, and
\* holds none from then on.
C28_QueueDrains == <>[](PendingCount(syncQueue) = 0)

\* the operation an earlier session left and the copy a failed replay made
\* of it have both been uploaded, and nothing is pending
C28_Witness ==
    /\ PendingCount(syncQueue) = 0
    /\ failures = 1
    /\ nextId = 3
    /\ uploadedOps = {1, 2}

====
